---- MODULE Spec2Model ----
(***************************************************************************)
(* A model of src/server.js, the HTTP gateway over GitHub's repository     *)
(* API: process startup (token validation, listen), the middleware chain   *)
(* (express.json, rate limiter), the four route handlers, the Joi schemas  *)
(* and the translation of upstream failures into gateway responses.        *)
(***************************************************************************)
EXTENDS Integers, Sequences, FiniteSets, TLC

(***************************************************************************)
(* Bounds of the model.                                                    *)
(***************************************************************************)
\* RATE_LIMIT_MAX_REQUESTS as configured through the environment
\* (server.js:40 reads it, falling back to 100 when unset).
RateLimitMax == 3
\* Upstream calls that may be awaiting their reply at the same time.
MaxInFlight == 2

(***************************************************************************)
(* Program constants.                                                      *)
(***************************************************************************)
NameMinLen == 1
NameMaxLen == 100
DescriptionMaxLen == 1000

(***************************************************************************)
(* JSON values.  A string is its content (txt) and its length (len): the   *)
(* schemas look at the length, Joi.boolean() looks at the content.         *)
(***************************************************************************)
Undefined == [t |-> "undefined"]
Null == [t |-> "null"]
Bool(b) == [t |-> "bool", b |-> b]
Num(n) == [t |-> "num", n |-> n]
Str(txt, len) == [t |-> "str", txt |-> txt, len |-> len]
\* A short text whose length plays no role (messages, labels).
Text(s) == [t |-> "text", txt |-> s]

\* String.prototype.toLowerCase on the contents the model draws.
ToLowerCase(txt) ==
    CASE txt = "TRUE" -> "true"
      [] txt = "FALSE" -> "false"
      [] OTHER -> txt

(***************************************************************************)
(* Joi.  validate() returns {error, value}; error is undefined when the    *)
(* value passes, else the first violation (abortEarly).                    *)
(***************************************************************************)
NoError == Undefined
JoiError(msg) == [t |-> "error", message |-> msg]
Passed(v) == [error |-> NoError, value |-> v]
Failed(msg) == [error |-> JoiError(msg), value |-> Undefined]

\* Joi.string() with optional presence and length rules; lo = -1 / hi = -1
\* stand for "no min()" / "no max()".  An empty string is rejected by
\* Joi.string() itself ("string.empty"), before any length rule.
JoiString(v, required, lo, hi) ==
    CASE v.t = "undefined" ->
            IF required THEN Failed("is required") ELSE Passed(v)
      [] v.t # "str" -> Failed("must be a string")
      [] v.len = 0 -> Failed("is not allowed to be empty")
      [] lo >= 0 /\ v.len < lo -> Failed("length must be at least min characters long")
      [] hi >= 0 /\ v.len > hi ->
            Failed("length must be less than or equal to max characters long")
      [] OTHER -> Passed(v)

\* A slip: Joi.boolean().truthy(1).falsy(0), which also converts numbers.
JoiBooleanTruthy(v, d) ==
    CASE v.t = "undefined" -> Passed(Bool(d))
      [] v.t = "bool" -> Passed(v)
      [] v.t = "num" -> Passed(Bool(v.n = 1))
      [] v.t = "str" /\ ToLowerCase(v.txt) = "true" -> Passed(Bool(TRUE))
      [] v.t = "str" /\ ToLowerCase(v.txt) = "false" -> Passed(Bool(FALSE))
      [] OTHER -> Failed("must be a boolean")

\* Joi.boolean().default(d): absent takes the default, a boolean passes, and
\* with Joi's default convert:true the strings "true"/"false" (any case)
\* become the boolean; anything else is "must be a boolean".
JoiBoolean(v, d) ==
    CASE v.t = "undefined" -> Passed(Bool(d))
      [] v.t = "bool" -> Passed(v)
      [] v.t = "str" /\ ToLowerCase(v.txt) = "true" -> Passed(Bool(TRUE))
      [] v.t = "str" /\ ToLowerCase(v.txt) = "false" -> Passed(Bool(FALSE))
      [] OTHER -> Failed("must be a boolean")

\* A request body as express.json() leaves it on req.body.
NoBody == [k |-> "undefined"]
ArrayBody == [k |-> "array"]
ObjectBody(o) == [k |-> "object", o |-> o]

\* createRepoSchema.validate(req.body): keys in declaration order, then the
\* keys the schema does not know (allowUnknown is off by default).
\* Slips: the name without its max(100); private defaulting to true.
CreateRepoNameNoMax(o) == JoiString(o.name, TRUE, NameMinLen, -1)
CreateRepoPrivateDefaultTrue(o) == JoiBoolean(o.private, TRUE)
CreateRepoName(o) == JoiString(o.name, TRUE, NameMinLen, NameMaxLen)
CreateRepoDescription(o) == JoiString(o.description, FALSE, -1, DescriptionMaxLen)
CreateRepoPrivate(o) == JoiBoolean(o.private, FALSE)
CreateRepoAutoInit(o) == JoiBoolean(o.auto_init, TRUE)

CreateRepoSchemaValidate(body) ==
    CASE body.k = "undefined" -> Passed(Undefined)
      [] body.k # "object" -> Failed("value must be of type object")
      [] OTHER ->
        LET o == body.o
            n == CreateRepoName(o)
            d == CreateRepoDescription(o)
            p == CreateRepoPrivate(o)
            a == CreateRepoAutoInit(o)
        IN  CASE n.error # NoError -> Failed("name " \o n.error.message)
              [] d.error # NoError -> Failed("description " \o d.error.message)
              [] p.error # NoError -> Failed("private " \o p.error.message)
              [] a.error # NoError -> Failed("auto_init " \o a.error.message)
              [] o.extra -> Failed("extra is not allowed")
              [] OTHER ->
                 Passed([t |-> "obj", name |-> n.value, description |-> d.value,
                         private |-> p.value, auto_init |-> a.value])

\* webhookSchema.validate(req.body).  Joi.object().required(): absent is
\* "is required", a non-object is "must be of type object".
WebhookOwner(owner) ==
    CASE owner.t = "undefined" -> Failed("repository.owner is required")
      [] owner.t # "obj" -> Failed("repository.owner must be of type object")
      [] OTHER ->
        LET l == JoiString(owner.login, TRUE, -1, -1)
        IN  IF l.error # NoError
            THEN Failed("repository.owner.login " \o l.error.message)
            ELSE Passed(owner)

WebhookRepository(repository) ==
    CASE repository.t = "undefined" -> Failed("repository is required")
      [] repository.t # "obj" -> Failed("repository must be of type object")
      [] OTHER ->
        LET n == JoiString(repository.name, TRUE, -1, -1)
            w == WebhookOwner(repository.owner)
        IN  CASE n.error # NoError -> Failed("repository.name " \o n.error.message)
              [] w.error # NoError -> w
              [] OTHER -> Passed(repository)

\* A slip: action without required().
WebhookActionOptional(o) == JoiString(o.action, FALSE, -1, -1)
WebhookAction(o) == JoiString(o.action, TRUE, -1, -1)

WebhookSchemaValidate(body) ==
    CASE body.k = "undefined" -> Passed(Undefined)
      [] body.k # "object" -> Failed("value must be of type object")
      [] OTHER ->
        LET o == body.o
            r == WebhookRepository(o.repository)
            a == WebhookAction(o)
        IN  CASE r.error # NoError -> r
              [] a.error # NoError -> Failed("action " \o a.error.message)
              [] o.extra -> Failed("extra is not allowed")
              [] OTHER -> Passed([t |-> "obj", repository |-> r.value, action |-> a.value])

(***************************************************************************)
(* Gateway responses: res.status(s).json(body).  JSON.stringify drops a    *)
(* key whose value is undefined, so an Undefined field is an absent key.   *)
(***************************************************************************)
Response(status, kind, error, message) ==
    [status |-> status, kind |-> kind, error |-> error, message |-> message]
NoResponse == [status |-> 0, kind |-> "none", error |-> Undefined, message |-> Undefined]

ErrorBody(status, error, message) == Response(status, "error", Text(error), message)

\* The error handling middleware (the last app.use).
ErrorMiddleware == ErrorBody(500, "Internal server error", Undefined)

\* express-rate-limit's answer once the count exceeds max.
TooManyRequests == Response(429, "limited", Undefined, Undefined)

\* GET /health: res.json({ status: 'ok' }); kind "status_ok" is that body.
HealthHandler == Response(200, "status_ok", Undefined, Undefined)

(***************************************************************************)
(* The upstream API as githubClient sees it.  axios resolves on a 2xx      *)
(* status and rejects otherwise: with error.response when a reply came,    *)
(* without when none did.                                                  *)
(***************************************************************************)
UpstreamMessages == {"name already exists", "Not Found"}
\* response.data: JSON null, an empty body (axios yields ''), an object
\* without a message, an object with one.
UpstreamData ==
    {Null, Text(""), [t |-> "obj", message |-> Undefined]}
    \cup {[t |-> "obj", message |-> Text(m)] : m \in UpstreamMessages}
FailureStatuses == {401, 403, 404, 422, 500}
Resolved(data) == [kind |-> "resolved", status |-> 200, data |-> data]
HttpError(status, data) == [kind |-> "http_error", status |-> status, data |-> data]
TransportFailure == [kind |-> "no_response", status |-> 0, data |-> Undefined]
\* A 2xx reply carries the repositories (an array, a repository object:
\* "obj" here) or, from a misbehaving upstream, JSON null.
UpstreamResults ==
    {Resolved(d) : d \in {Null, [t |-> "obj", message |-> Undefined]}}
    \cup {HttpError(s, d) : s \in FailureStatuses, d \in UpstreamData}
    \cup {TransportFailure}

\* What a handler's promise settles to: a response sent, or an exception
\* that left the handler.
Sent(resp) == [thrown |-> FALSE, resp |-> resp]
Thrown == [thrown |-> TRUE, resp |-> NoResponse]

\* error.response.data.message: a TypeError on null, undefined on a
\* string, the property on an object.
ReadingMessageThrows(data) == data.t \in {"null", "undefined"}
MessageOf(data) == IF data.t = "obj" THEN data.message ELSE Undefined

\* The catch block of GET /api/github/repos.
ListReposCatch(result) ==
    IF result.kind = "http_error"
    THEN CASE result.status = 401 ->
                Sent(ErrorBody(401, "Authentication failed",
                               Text("Invalid or expired GitHub token")))
           [] result.status = 403 ->
                Sent(ErrorBody(403, "Permission denied",
                               Text("Token does not have required permissions")))
           [] OTHER ->
                IF ReadingMessageThrows(result.data)
                THEN Thrown
                ELSE Sent(ErrorBody(result.status, "GitHub API error",
                                    MessageOf(result.data)))
    ELSE Sent(ErrorBody(500, "Internal server error",
                        Text("Failed to fetch repositories")))

\* The catch block of POST /api/github/repos.
CreateRepoCatch(result) ==
    IF result.kind = "http_error"
    THEN CASE result.status = 401 ->
                Sent(ErrorBody(401, "Authentication failed",
                               Text("Invalid or expired GitHub token")))
           [] result.status = 422 ->
                IF ReadingMessageThrows(result.data)
                THEN Thrown
                ELSE Sent(ErrorBody(422, "Validation failed", MessageOf(result.data)))
           [] OTHER ->
                IF ReadingMessageThrows(result.data)
                THEN Thrown
                ELSE Sent(ErrorBody(result.status, "GitHub API error",
                                    MessageOf(result.data)))
    ELSE Sent(ErrorBody(500, "Internal server error",
                        Text("Failed to create repository")))

\* GET /api/github/repos after the await: response.data.map(...) throws
\* inside the try when data is no array, and the handler's own catch then
\* sees an error without a response.
ListReposContinue(result) ==
    IF result.kind = "resolved"
    THEN IF result.data.t = "obj"
         THEN Sent(Response(200, "repos", Undefined, Undefined))
         ELSE ListReposCatch(TransportFailure)
    ELSE ListReposCatch(result)

\* POST /api/github/repos after the await: response.data.id throws inside
\* the try when data is null.
CreateRepoContinue(result) ==
    IF result.kind = "resolved"
    THEN IF result.data.t = "obj"
         THEN Sent(Response(201, "repo", Undefined, Undefined))
         ELSE CreateRepoCatch(TransportFailure)
    ELSE CreateRepoCatch(result)

(***************************************************************************)
(* The requests the model draws.                                           *)
(***************************************************************************)
Routes == {"health", "list", "create", "webhook"}

NameValues ==
    {Undefined, Num(1), Str("", 0), Str("a", 1),
     Str("long", NameMaxLen), Str("long", NameMaxLen + 1)}
DescriptionValues ==
    {Undefined, Str("", 0), Str("text", DescriptionMaxLen),
     Str("text", DescriptionMaxLen + 1)}
PrivateValues ==
    {Undefined, Bool(TRUE), Bool(FALSE), Str("true", 4), Str("yes", 3), Num(1)}
AutoInitValues == {Undefined, Bool(FALSE), Str("FALSE", 5), Num(0)}

\* The bodies drawn: a body with only a name and a body with every known
\* key, each with one key at a time taken through all of its values.
MinimalCreate ==
    [name |-> Str("a", 1), description |-> Undefined, private |-> Undefined,
     auto_init |-> Undefined, extra |-> FALSE]
FullCreate ==
    [name |-> Str("long", NameMaxLen), description |-> Str("text", DescriptionMaxLen),
     private |-> Bool(TRUE), auto_init |-> Bool(FALSE), extra |-> FALSE]
VaryCreate(o) ==
    {[o EXCEPT !.name = v] : v \in NameValues}
    \cup {[o EXCEPT !.description = v] : v \in DescriptionValues}
    \cup {[o EXCEPT !.private = v] : v \in PrivateValues}
    \cup {[o EXCEPT !.auto_init = v] : v \in AutoInitValues}
    \cup {[o EXCEPT !.extra = e] : e \in BOOLEAN}
CreateObjects == VaryCreate(MinimalCreate) \cup VaryCreate(FullCreate)

StringValues == {Undefined, Num(1), Str("", 0), Str("x", 1)}
Owner(login) == [t |-> "obj", login |-> login]
Repository(name, owner) == [t |-> "obj", name |-> name, owner |-> owner]
OwnerValues == {Undefined, Num(1)} \cup {Owner(l) : l \in StringValues}
RepositoryValues ==
    {Undefined, Num(1)}
    \cup {Repository(n, Owner(Str("x", 1))) : n \in StringValues}
    \cup {Repository(Str("x", 1), w) : w \in OwnerValues}
FullWebhook ==
    [repository |-> Repository(Str("x", 1), Owner(Str("x", 1))),
     action |-> Str("x", 1), extra |-> FALSE]
\* { invalid: 'data' }, the body of the repository's own test.
InvalidDataWebhook == [repository |-> Undefined, action |-> Undefined, extra |-> TRUE]
EmptyWebhook == [repository |-> Undefined, action |-> Undefined, extra |-> FALSE]
\* Every required key present and empty.
EmptyStringsWebhook ==
    [repository |-> Repository(Str("", 0), Owner(Str("", 0))),
     action |-> Str("", 0), extra |-> FALSE]
WebhookObjects ==
    {[FullWebhook EXCEPT !.repository = r] : r \in RepositoryValues}
    \cup {[FullWebhook EXCEPT !.action = a] : a \in StringValues}
    \cup {[FullWebhook EXCEPT !.extra = e] : e \in BOOLEAN}
    \cup {InvalidDataWebhook, EmptyWebhook, EmptyStringsWebhook}

\* req.body on the routes that read it.  NoBody is a request without a
\* body where the body parser leaves req.body undefined; where it sets {}
\* instead, the request is the object with every key absent.
CreateBodies == {NoBody, ArrayBody} \cup {ObjectBody(o) : o \in CreateObjects}
WebhookBodies == {NoBody, ArrayBody} \cup {ObjectBody(o) : o \in WebhookObjects}
\* The GET handlers never read req.body.
IgnoredBodies == {NoBody, ArrayBody}
MalformedBody == [k |-> "malformed"]

(***************************************************************************)
(* State.                                                                  *)
(***************************************************************************)
VARIABLES
    proc,        \* "running", "exited" (process.exit(1)), "crashed"
    tokenCheck,  \* validateGitHubToken: "notStarted", "pending", "validated",
                 \* "failed" (logged only), "rejected" (401)
    listening,   \* app.listen has been called
    hits,        \* the rate limiter's count for the client in this window
    pending,     \* upstream calls awaiting their reply, per route
    last         \* the latest step of a request: its arrival or its reply

vars == <<proc, tokenCheck, listening, hits, pending, last>>

NoResult == [kind |-> "none", status |-> 0, data |-> Undefined]

Step(ev, route, body, reached, calls, payload, result, settled, escaped, responses, resp) ==
    [ev |-> ev, route |-> route, body |-> body, reached |-> reached, calls |-> calls,
     payload |-> payload, result |-> result, settled |-> settled, escaped |-> escaped,
     responses |-> responses, resp |-> resp]

Init ==
    /\ proc = "running"
    /\ tokenCheck = "notStarted"
    /\ listening = FALSE
    /\ hits = 0
    /\ pending = [list |-> 0, create |-> 0]
    /\ last = Step("none", "none", NoBody, FALSE, 0, Undefined, NoResult, FALSE, FALSE,
                   0, NoResponse)

(***************************************************************************)
(* Startup.                                                                *)
(***************************************************************************)
\* validateGitHubToken() is called and not awaited: githubClient.get('/user')
\* is issued and the module goes on.
ValidateGitHubToken ==
    /\ proc = "running"
    /\ tokenCheck = "notStarted"
    /\ tokenCheck' = "pending"
    /\ UNCHANGED <<proc, listening, hits, pending, last>>

\* app.listen(PORT, ...), reached in the same synchronous run.
Listen ==
    /\ proc = "running"
    /\ tokenCheck # "notStarted"
    /\ ~listening
    /\ listening' = TRUE
    /\ UNCHANGED <<proc, tokenCheck, hits, pending, last>>

\* The continuation of validateGitHubToken once GET /user settles; it runs
\* after the module's synchronous code, so after app.listen.
TokenOutcomes == {Resolved(Null)} \cup {HttpError(s, Null) : s \in {401, 403}} \cup {TransportFailure}
ExitOnRejectedToken(outcome) == outcome.kind = "http_error" /\ outcome.status = 401

TokenValidationSettled(outcome) ==
    /\ proc = "running"
    /\ tokenCheck = "pending"
    /\ listening
    /\ tokenCheck' = CASE outcome.kind = "resolved" -> "validated"
                       [] ExitOnRejectedToken(outcome) -> "rejected"
                       [] OTHER -> "failed"
    /\ proc' = IF ExitOnRejectedToken(outcome) THEN "exited" ELSE proc
    /\ UNCHANGED <<listening, hits, pending, last>>

(***************************************************************************)
(* Middleware.                                                             *)
(***************************************************************************)
Serving == proc = "running" /\ listening

\* A slip: refusing the request that reaches max instead of the one after.
OverLimitOffByOne(n) == n >= RateLimitMax

\* express-rate-limit: every request that reaches it is counted, and one
\* whose count exceeds max is answered 429.  The count is kept up to
\* max + 1: beyond it every request is refused alike.
Hit(n) == IF n > RateLimitMax THEN n ELSE n + 1
OverLimit(n) == n > RateLimitMax

\* The window (RATE_LIMIT_WINDOW_MS) runs out and the count starts again.
WindowReset ==
    /\ proc = "running"
    /\ hits > 0
    /\ hits' = 0
    /\ UNCHANGED <<proc, tokenCheck, listening, pending, last>>

\* express.json() fails on the body and passes the error to next(err): the
\* limiter and the routes are skipped, the error handling middleware answers.
JsonParseError(route) ==
    /\ Serving
    /\ last' = Step("request", route, MalformedBody, FALSE, 0, Undefined, NoResult,
                    TRUE, TRUE, 1, ErrorMiddleware)
    /\ UNCHANGED <<proc, tokenCheck, listening, hits, pending>>

\* The limiter refuses the request.
RateLimited(route, body) ==
    /\ Serving
    /\ OverLimit(Hit(hits))
    /\ hits' = Hit(hits)
    /\ last' = Step("request", route, body, FALSE, 0, Undefined, NoResult,
                    TRUE, FALSE, 1, TooManyRequests)
    /\ UNCHANGED <<proc, tokenCheck, listening, pending>>

(***************************************************************************)
(* Route handlers, each with the middleware a request passes on its way.   *)
(***************************************************************************)
\* app.get('/health')
Health(body) ==
    /\ Serving
    /\ ~OverLimit(Hit(hits))
    /\ hits' = Hit(hits)
    /\ last' = Step("request", "health", body, TRUE, 0, Undefined, NoResult,
                    TRUE, FALSE, 1, HealthHandler)
    /\ UNCHANGED <<proc, tokenCheck, listening, pending>>

\* app.post('/api/github/webhook')
WebhookHandler(body) ==
    LET v == WebhookSchemaValidate(body)
    IN  IF v.error # NoError
        THEN ErrorBody(400, v.error.message, Undefined)
        ELSE Response(200, "ack", Undefined, Text("Webhook received"))

Webhook(body) ==
    /\ Serving
    /\ ~OverLimit(Hit(hits))
    /\ hits' = Hit(hits)
    /\ last' = Step("request", "webhook", body, TRUE, 0, Undefined, NoResult,
                    TRUE, FALSE, 1, WebhookHandler(body))
    /\ UNCHANGED <<proc, tokenCheck, listening, pending>>

InFlight == pending.list + pending.create

\* app.get('/api/github/repos') up to its await: one githubClient.get.
ListReposCalls == 1

ListRepos(body) ==
    /\ Serving
    /\ ~OverLimit(Hit(hits))
    /\ InFlight < MaxInFlight
    /\ hits' = Hit(hits)
    /\ pending' = [pending EXCEPT !.list = @ + ListReposCalls]
    /\ last' = Step("request", "list", body, TRUE, ListReposCalls, Undefined, NoResult,
                    FALSE, FALSE, 0, NoResponse)
    /\ UNCHANGED <<proc, tokenCheck, listening>>

\* app.post('/api/github/repos') up to its await: validate, answer 400 on
\* an error, else githubClient.post('/user/repos', value).
CreateRepoPayload(v) == v.value

CreateRepo(body) ==
    LET v == CreateRepoSchemaValidate(body)
    IN  /\ Serving
        /\ ~OverLimit(Hit(hits))
        /\ v.error = NoError => InFlight < MaxInFlight
        /\ hits' = Hit(hits)
        /\ IF v.error # NoError
           THEN /\ last' = Step("request", "create", body, TRUE, 0, Undefined, NoResult,
                                TRUE, FALSE, 1,
                                ErrorBody(400, v.error.message, Undefined))
                /\ UNCHANGED pending
           ELSE /\ last' = Step("request", "create", body, TRUE, 1, CreateRepoPayload(v),
                                NoResult, FALSE, FALSE, 0, NoResponse)
                /\ pending' = [pending EXCEPT !.create = @ + 1]
        /\ UNCHANGED <<proc, tokenCheck, listening>>

(***************************************************************************)
(* The upstream reply and the rest of the handler.                         *)
(***************************************************************************)
\* What becomes of an exception that leaves an async route handler depends
\* on the router and the runtime the build installs: the rejected promise
\* is handed to next(err) (the error handling middleware answers), or it is
\* dropped and the request is never answered, or the unhandled rejection
\* ends the process.
RejectionOutcomes == {"errorMiddleware", "unanswered", "crash"}

\* A slip: one more attempt after a failed call.
RetryOnceAfterFailure(result) == IF result.kind = "resolved" THEN 0 ELSE 1
\* Calls a handler issues after its upstream call has failed: none.
RetriesAfter(result) == 0

Continue(route, result) ==
    IF route = "list" THEN ListReposContinue(result) ELSE CreateRepoContinue(result)

UpstreamReply(route, result, rejection) ==
    LET out == Continue(route, result)
        answered == ~out.thrown \/ rejection = "errorMiddleware"
    IN  /\ proc = "running"
        /\ pending[route] > 0
        /\ out.thrown \/ rejection = "errorMiddleware"
        /\ pending' = [pending EXCEPT ![route] = @ - 1]
        /\ proc' = IF out.thrown /\ rejection = "crash" THEN "crashed" ELSE proc
        /\ last' = Step("reply", route, NoBody, TRUE, RetriesAfter(result), Undefined,
                        result, TRUE, out.thrown, IF answered THEN 1 ELSE 0,
                        CASE ~out.thrown -> out.resp
                          [] answered -> ErrorMiddleware
                          [] OTHER -> NoResponse)
        /\ UNCHANGED <<tokenCheck, listening, hits>>

Next ==
    \/ ValidateGitHubToken
    \/ Listen
    \/ \E outcome \in TokenOutcomes : TokenValidationSettled(outcome)
    \/ WindowReset
    \/ \E route \in Routes : JsonParseError(route)
    \/ \E route \in Routes :
         \E body \in (IF route = "create" THEN CreateBodies
                      ELSE IF route = "webhook" THEN WebhookBodies ELSE IgnoredBodies) :
            RateLimited(route, body)
    \/ \E body \in IgnoredBodies : Health(body)
    \/ \E body \in WebhookBodies : Webhook(body)
    \/ \E body \in IgnoredBodies : ListRepos(body)
    \/ \E body \in CreateBodies : CreateRepo(body)
    \/ \E route \in {"list", "create"}, result \in UpstreamResults,
          rejection \in RejectionOutcomes : UpstreamReply(route, result, rejection)

Spec == Init /\ [][Next]_vars

(***************************************************************************)
(* Vocabulary of the claims, read off the request and the response alone.  *)
(***************************************************************************)
Arrival(route) == last.ev = "request" /\ last.route = route
ObjectArrival(route) == Arrival(route) /\ last.body.k = "object"
HasErrorString(resp) == resp.error.t = "text" /\ resp.error.txt # ""
IsString(v) == v.t = "str"
IsBoolean(v) == v.t = "bool"
Absent(v) == v.t = "undefined"
Ok200 == Response(200, "status_ok", Undefined, Undefined)
Ack200 == Response(200, "ack", Undefined, Text("Webhook received"))

\* The name is missing, no string, empty or longer than 100.
BadName(o) == ~IsString(o.name) \/ o.name.len = 0 \/ o.name.len > 100
DescriptionTooLong(o) == IsString(o.description) /\ o.description.len > 1000
\* The data model of a creation request: description a string of at most
\* 1000 characters, private and auto_init booleans, each optional; further
\* keys ignored.
ValidPerDataModel(o) ==
    /\ ~BadName(o)
    /\ Absent(o.description) \/ (IsString(o.description) /\ o.description.len <= 1000)
    /\ Absent(o.private) \/ IsBoolean(o.private)
    /\ Absent(o.auto_init) \/ IsBoolean(o.auto_init)
BooleanWord(v) == IsString(v) /\ v.txt \in {"true", "false", "TRUE", "FALSE"}
WordValue(v) == Bool(v.txt \in {"true", "TRUE"})

(***************************************************************************)
(* C1  Startup guard: when the startup GET /user is rejected (401) and the *)
(* process terminates, no inbound request has been served between process  *)
(* start and that termination: no route handler has run for one.           *)
(***************************************************************************)
C1_NoRequestBeforeRejectedExit == proc = "exited" => ~last.reached

C2_Table(route, result) ==
    CASE result.kind = "no_response" ->
            ErrorBody(500, "Internal server error",
                      Text(IF route = "list" THEN "Failed to fetch repositories"
                           ELSE "Failed to create repository"))
      [] result.status = 401 ->
            ErrorBody(401, "Authentication failed", Text("Invalid or expired GitHub token"))
      [] result.status = 403 /\ route = "list" ->
            ErrorBody(403, "Permission denied",
                      Text("Token does not have required permissions"))
      [] result.status = 422 /\ route = "create" ->
            ErrorBody(422, "Validation failed",
                      IF result.data.t = "obj" THEN result.data.message ELSE Undefined)
      [] OTHER ->
            ErrorBody(result.status, "GitHub API error",
                      IF result.data.t = "obj" THEN result.data.message ELSE Undefined)

(***************************************************************************)
(* C2  Error translation: every failed upstream call on the list and       *)
(* create routes is answered exactly as the table says: 401 -> fixed       *)
(* authentication message; 403 on list -> fixed permission message; 422 on *)
(* create -> 'Validation failed' with the upstream message; any other      *)
(* status -> same status, 'GitHub API error', upstream message; no         *)
(* response -> 500 with the route's fixed message.                         *)
(***************************************************************************)
C2_ErrorTranslationTable ==
    (last.ev = "reply" /\ last.result.kind \in {"http_error", "no_response"})
        => (last.responses = 1 /\ last.resp = C2_Table(last.route, last.result))

(***************************************************************************)
(* C3  A malformed JSON body, on any route, is rejected with a 400-class   *)
(* status before any route handler runs; it is never answered 5xx.         *)
(***************************************************************************)
C3_MalformedJsonIs4xx ==
    (last.ev = "request" /\ last.body = MalformedBody)
        => (~last.reached /\ last.resp.status \in 400..499)

(***************************************************************************)
(* C4  Every request whose handling has ended has received exactly one     *)
(* response, and a fault that escaped the validator and the translator     *)
(* (an exception inside a handler's own error branch included) was         *)
(* answered by the catch-all: 500 {error: 'Internal server error'}.        *)
(***************************************************************************)
C4_ExactlyOneResponse ==
    last.settled
        => (last.responses = 1 /\ (last.escaped => last.resp = ErrorMiddleware))

C5_Accepted(o) ==
    /\ ~BadName(o)
    /\ Absent(o.description)
         \/ (IsString(o.description) /\ o.description.len \in 1..1000)
    /\ Absent(o.private) \/ IsBoolean(o.private) \/ BooleanWord(o.private)
    /\ Absent(o.auto_init) \/ IsBoolean(o.auto_init) \/ BooleanWord(o.auto_init)
    /\ ~o.extra

PassesValidation(body) == CreateRepoSchemaValidate(body).error = NoError
CallsAsClaimed(route, body) ==
    IF route = "list" \/ (route = "create" /\ body # MalformedBody /\ PassesValidation(body))
    THEN 1 ELSE 0

(***************************************************************************)
(* C6  As claimed: a request causes exactly one upstream call when it is   *)
(* GET /api/github/repos or a POST /api/github/repos whose body passes     *)
(* validation, and none otherwise; nothing is retried after a failure.     *)
(* Stated for the requests whose body the parser let through.              *)
(***************************************************************************)
C6_CallCountAsClaimed ==
    /\ (last.ev = "request" /\ last.body # MalformedBody)
         => last.calls = CallsAsClaimed(last.route, last.body)
    /\ last.ev = "reply" => last.calls = 0

(***************************************************************************)
(* C6 amended: a request causes exactly one upstream call when it reaches  *)
(* its route handler and is GET /api/github/repos or a POST                *)
(* /api/github/repos whose body passes validation; it causes none when the *)
(* body parser or the rate limiter stops it before the handler, and none   *)
(* for a POST that fails validation, the webhook and /health; nothing is   *)
(* retried after a failure.                                                *)
(***************************************************************************)
C6_CallCount ==
    /\ last.ev = "request"
         => last.calls = IF last.reached THEN CallsAsClaimed(last.route, last.body) ELSE 0
    /\ last.ev = "reply" => last.calls = 0

C6_Witness ==
    last.ev = "reply" /\ last.result.kind = "http_error" /\ last.calls = 0

(***************************************************************************)
(* C7  As claimed: private and auto_init, when present, reach the upstream *)
(* payload verbatim; a string or a number is never turned into a boolean.  *)
(***************************************************************************)
C7_VerbatimAsClaimed ==
    (ObjectArrival("create") /\ last.calls = 1)
        => /\ ~Absent(last.body.o.private) => last.payload.private = last.body.o.private
           /\ ~Absent(last.body.o.auto_init)
                => last.payload.auto_init = last.body.o.auto_init

C7_Field(supplied, sent) ==
    /\ IsBoolean(sent)
    /\ IsBoolean(supplied) => sent = supplied
    /\ IsString(supplied) => (BooleanWord(supplied) /\ sent = WordValue(supplied))
    /\ supplied.t # "num"

(***************************************************************************)
(* C7 amended: private and auto_init, when present as booleans, reach the  *)
(* upstream payload verbatim; the strings true/false (in any letter case)  *)
(* are converted to the boolean they spell; a body with any other string   *)
(* or a number there is not sent upstream, so the payload always carries   *)
(* booleans.                                                               *)
(***************************************************************************)
C7_BooleanFields ==
    (ObjectArrival("create") /\ last.calls = 1)
        => /\ C7_Field(last.body.o.private, last.payload.private)
           /\ C7_Field(last.body.o.auto_init, last.payload.auto_init)

C7_Witness ==
    /\ ObjectArrival("create") /\ last.calls = 1
    /\ last.body.o.private = Str("true", 4)
    /\ last.payload.private = Bool(TRUE)

(***************************************************************************)
(* C8  For every valid creation body that omits private and/or auto_init,  *)
(* the payload sent upstream has private = false and auto_init = true for  *)
(* the omitted ones, and every supplied known field unchanged.             *)
(***************************************************************************)
C8_Defaults ==
    (ObjectArrival("create") /\ last.reached /\ ValidPerDataModel(last.body.o)
       /\ last.calls = 1
       /\ (Absent(last.body.o.private) \/ Absent(last.body.o.auto_init)))
        => LET o == last.body.o
               sent == last.payload
           IN  /\ sent.private = IF Absent(o.private) THEN Bool(FALSE) ELSE o.private
               /\ sent.auto_init = IF Absent(o.auto_init) THEN Bool(TRUE) ELSE o.auto_init
               /\ sent.name = o.name
               /\ sent.description = o.description

C8_Witness ==
    /\ ObjectArrival("create") /\ last.calls = 1
    /\ last.body.o = MinimalCreate
    /\ last.payload.private = Bool(FALSE)
    /\ last.payload.auto_init = Bool(TRUE)

RepositoryName(o) ==
    IF o.repository.t = "obj" THEN o.repository.name ELSE Undefined
OwnerLogin(o) ==
    IF o.repository.t = "obj" /\ o.repository.owner.t = "obj"
    THEN o.repository.owner.login ELSE Undefined
Required(o) == {RepositoryName(o), OwnerLogin(o), o.action}

HealthStep ==
    /\ last'.ev = "request" /\ last'.route = "health"
    /\ last' # last \/ hits' > hits

====
